---------------------------- MODULE Spec2Model ----------------------------
(***************************************************************************)
(* A model of mobilpy.Client (src/mobilpy/__init__.py): the order document *)
(* built by create_request_xml, the hybrid envelope of encrypt_message and *)
(* decrypt_message, the notification record of parse_webhook_request, the  *)
(* acknowledgement of create_webhook_reponse and the orchestration of      *)
(* create_payment_data.                                                    *)
(*                                                                         *)
(* Python values.  A str or bytes value is a sequence of code points or of *)
(* byte values (integers).  An optional value is None (the empty tuple) or *)
(* Some(v) (a one-element tuple).  The interpreter is part of the state    *)
(* (python): the source supports CPython 2.7 and CPython 3 (lines 4-7 and  *)
(* 244-250); 3 stands for a current CPython 3, whose unquote accepts bytes *)
(* as well as str.                                                         *)
(***************************************************************************)
EXTENDS Integers, Sequences, FiniteSets, TLC

VARIABLES
    client,   \* the Client object: signature, public_key, private_key, developement
    client0,  \* the client as __init__ left it (history variable)
    python,   \* the interpreter running the module: 2 or 3
    pc,       \* "ready": no call in progress; "returned": a call has just returned
    call,     \* the most recent call: its method name and its arguments
    ret,      \* what that call returned or raised
    trace,    \* the collaborators that call invoked, in order
    wire      \* the envelope in flight to decrypt_message, with the bytes it wraps

vars == <<client, client0, python, pc, call, ret, trace, wire>>

-----------------------------------------------------------------------------
(* Bounds of the model *)

\* order_id lengths 0..MaxOrderIdLen are explored (the limit of line 410 is 64)
MaxOrderIdLen == 66
\* size in bytes of the RSA modulus of the key pair (k of RFC 8017)
ModulusLen == 32
\* the longest list of child elements of a notification's mobilpay block
MaxChildren == 2

\* len(order_id) > 64, line 410
OrderIdLimit == 64
\* Random.get_random_bytes(16), line 211
SessionKeyLen == 16

-----------------------------------------------------------------------------
(* Python values *)

None == <<>>
Some(v) == <<v>>
IsNone(o) == o = <<>>
Val(o) == o[1]

\* a left fold of f over the integers lo..hi, splitting the range in halves
RECURSIVE FoldRange(_, _, _, _)
FoldRange(f(_, _), st, lo, hi) ==
    IF lo > hi THEN st
    ELSE IF lo = hi THEN f(st, lo)
    ELSE LET mid  == (lo + hi) \div 2
             left == FoldRange(f, st, lo, mid)
         IN  IF left = left THEN FoldRange(f, left, mid + 1, hi) ELSE left

\* the concatenation of the sequences of a sequence
RECURSIVE Concat(_, _, _)
Concat(ss, lo, hi) ==
    IF lo > hi THEN <<>>
    ELSE IF lo = hi THEN ss[lo]
    ELSE Concat(ss, lo, (lo + hi) \div 2) \o Concat(ss, ((lo + hi) \div 2) + 1, hi)

Join(ss) == Concat(ss, 1, Len(ss))

Repeat(c, n) == [i \in 1..n |-> c]

RECURSIVE XorBits(_, _, _)
XorBits(a, b, n) ==
    IF n = 0 THEN 0
    ELSE ((a + b) % 2) + 2 * XorBits(a \div 2, b \div 2, n - 1)

\* a ^ b on bytes
Xor(a, b) == XorBits(a, b, 8)

\* str(n) of a Python int
RECURSIVE Digits(_)
Digits(n) == IF n < 10 THEN <<48 + n>> ELSE Digits(n \div 10) \o <<48 + (n % 10)>>

str_int(n) == IF n < 0 THEN <<45>> \o Digits(0 - n) ELSE Digits(n)

\* one code point as UTF-8
utf8_char(c) ==
    IF c < 128 THEN <<c>>
    ELSE IF c < 2048 THEN <<192 + (c \div 64), 128 + (c % 64)>>
    ELSE <<224 + (c \div 4096), 128 + ((c \div 64) % 64), 128 + (c % 64)>>

\* s.encode('utf-8')
utf8_encode(s) == Join([i \in 1..Len(s) |-> utf8_char(s[i])])

IsCont(b) == b >= 128 /\ b <= 191

\* the length of the well-formed UTF-8 sequence that starts at s[i], or 0.
\* CPython 2.7 decodes the surrogates (ED A0..BF xx); CPython 3 refuses them.
utf8_seq_len(s, i, py) ==
    LET b  == s[i]
        n  == Len(s)
        b2 == IF i + 1 <= n THEN s[i + 1] ELSE 0
        b3 == IF i + 2 <= n THEN s[i + 2] ELSE 0
        b4 == IF i + 3 <= n THEN s[i + 3] ELSE 0
    IN  IF b < 128 THEN 1
        ELSE IF b >= 194 /\ b <= 223 /\ IsCont(b2) THEN 2
        ELSE IF b = 224 /\ b2 >= 160 /\ b2 <= 191 /\ IsCont(b3) THEN 3
        ELSE IF b = 237 /\ py = 3 /\ b2 >= 128 /\ b2 <= 159 /\ IsCont(b3) THEN 3
        ELSE IF b = 237 /\ py = 2 /\ IsCont(b2) /\ IsCont(b3) THEN 3
        ELSE IF b >= 225 /\ b <= 239 /\ b # 237 /\ IsCont(b2) /\ IsCont(b3) THEN 3
        ELSE IF b = 240 /\ b2 >= 144 /\ b2 <= 191 /\ IsCont(b3) /\ IsCont(b4) THEN 4
        ELSE IF b >= 241 /\ b <= 243 /\ IsCont(b2) /\ IsCont(b3) /\ IsCont(b4) THEN 4
        ELSE IF b = 244 /\ b2 >= 128 /\ b2 <= 143 /\ IsCont(b3) /\ IsCont(b4) THEN 4
        ELSE 0

utf8_code_point(s, i, n) ==
    IF n = 1 THEN s[i]
    ELSE IF n = 2 THEN (s[i] - 192) * 64 + (s[i + 1] - 128)
    ELSE IF n = 3 THEN (s[i] - 224) * 4096 + (s[i + 1] - 128) * 64 + (s[i + 2] - 128)
    ELSE (s[i] - 240) * 262144 + (s[i + 1] - 128) * 4096
         + (s[i + 2] - 128) * 64 + (s[i + 3] - 128)

\* the decoder after the sequence of n bytes at index i (n = 0: no sequence)
utf8_decoded(s, st, i, n) ==
    IF n = 0
    THEN [next |-> i + 1, out |-> Append(st.out, 65533), ok |-> FALSE]
    ELSE [next |-> i + n, out |-> Append(st.out, utf8_code_point(s, i, n)), ok |-> st.ok]

\* one step of the decoder at index i: st.next is the next index to decode
utf8_decode_step(s, py, st, i) ==
    IF i < st.next THEN st ELSE utf8_decoded(s, st, i, utf8_seq_len(s, i, py))

\* bytes.decode('utf-8', errors): ok is FALSE when some byte is not UTF-8 (the
\* 'strict' handler raises UnicodeDecodeError, 'replace' writes U+FFFD in out)
utf8_decode(s, py) ==
    LET step(st, i) == utf8_decode_step(s, py, st, i)
    IN  FoldRange(step, [next |-> 1, out |-> <<>>, ok |-> TRUE], 1, Len(s))


-----------------------------------------------------------------------------
(* base64 and urllib, as lines 214, 218, 245-250, 253 and 254 use them *)

\* the base64 alphabet: A-Z a-z 0-9 + /
b64_char(i) ==
    IF i < 26 THEN 65 + i
    ELSE IF i < 52 THEN 97 + (i - 26)
    ELSE IF i < 62 THEN 48 + (i - 52)
    ELSE IF i = 62 THEN 43 ELSE 47

\* the value of a base64 character, 64 for any other character
b64_index(c) ==
    IF c >= 65 /\ c <= 90 THEN c - 65
    ELSE IF c >= 97 /\ c <= 122 THEN c - 97 + 26
    ELSE IF c >= 48 /\ c <= 57 THEN c - 48 + 52
    ELSE IF c = 43 THEN 62
    ELSE IF c = 47 THEN 63
    ELSE 64

\* base64.b64encode(s): every 3 bytes become 4 characters, '=' pads the last group
b64encode(s) ==
    LET n == Len(s)
        byte(i) == IF i <= n THEN s[i] ELSE 0
        quad(g, q) ==
            LET b1 == byte(3 * g + 1)
                b2 == byte(3 * g + 2)
                b3 == byte(3 * g + 3)
            IN  IF q = 1 THEN b64_char(b1 \div 4)
                ELSE IF q = 2 THEN b64_char((b1 % 4) * 16 + (b2 \div 16))
                ELSE IF q = 3
                     THEN IF 3 * g + 2 > n THEN 61
                          ELSE b64_char((b2 % 16) * 4 + (b3 \div 64))
                ELSE IF 3 * g + 3 > n THEN 61 ELSE b64_char(b3 % 64)
    IN  [k \in 1..(4 * ((n + 2) \div 3)) |-> quad((k - 1) \div 4, ((k - 1) % 4) + 1)]

\* binascii.a2b_base64 on one character (not in strict mode): characters outside
\* the alphabet are skipped, a complete pad sequence ends the input
a2b_base64_step(s, st, i) ==
    LET c == s[i]
        v == b64_index(c)
    IN  IF st.done THEN st
        ELSE IF c = 61
             THEN IF st.quad_pos >= 2 /\ st.quad_pos + st.pads + 1 >= 4
                  THEN [st EXCEPT !.done = TRUE, !.quad_pos = 0]
                  ELSE IF st.quad_pos >= 2
                       THEN [st EXCEPT !.pads = st.pads + 1]
                       ELSE st
        ELSE IF v = 64 THEN st
        ELSE IF st.quad_pos = 0
             THEN [st EXCEPT !.quad_pos = 1, !.leftchar = v, !.pads = 0]
        ELSE IF st.quad_pos = 1
             THEN [st EXCEPT !.quad_pos = 2, !.leftchar = v % 16, !.pads = 0,
                             !.out = Append(st.out, st.leftchar * 4 + (v \div 16))]
        ELSE IF st.quad_pos = 2
             THEN [st EXCEPT !.quad_pos = 3, !.leftchar = v % 4, !.pads = 0,
                             !.out = Append(st.out, st.leftchar * 16 + (v \div 4))]
        ELSE [st EXCEPT !.quad_pos = 0, !.leftchar = 0, !.pads = 0,
                        !.out = Append(st.out, st.leftchar * 64 + v)]

\* the bytes decoded when the input ends in state end, unless the last group is
\* not complete ("Incorrect padding")
a2b_base64_end(end) ==
    IF end.quad_pos # 0 THEN [ok |-> FALSE, out |-> <<>>]
    ELSE [ok |-> TRUE, out |-> end.out]

\* base64.b64decode(s): ok is FALSE when it raises (a character that is not ASCII,
\* or "Incorrect padding")
b64decode(s) ==
    LET step(st, i) == a2b_base64_step(s, st, i)
    IN  IF \E i \in 1..Len(s) : s[i] >= 128 THEN [ok |-> FALSE, out |-> <<>>]
        ELSE a2b_base64_end(
                 FoldRange(step, [quad_pos |-> 0, leftchar |-> 0, pads |-> 0,
                                  out |-> <<>>, done |-> FALSE], 1, Len(s)))

\* the value of a hexadecimal digit, 16 for any other character
hex_value(c) ==
    IF c >= 48 /\ c <= 57 THEN c - 48
    ELSE IF c >= 65 /\ c <= 70 THEN c - 55
    ELSE IF c >= 97 /\ c <= 102 THEN c - 87
    ELSE 16

hex_digit(v) == IF v < 10 THEN 48 + v ELSE 55 + v

\* urllib's unquote on one character: %XX becomes the byte XX, a '%' that two
\* hexadecimal digits do not follow stays
unquote_step(s, st, i) ==
    IF i < st.next THEN st
    ELSE IF s[i] = 37 /\ i + 2 <= Len(s)
            /\ hex_value(s[i + 1]) < 16 /\ hex_value(s[i + 2]) < 16
         THEN [next |-> i + 3,
               out |-> Append(st.out, hex_value(s[i + 1]) * 16 + hex_value(s[i + 2]))]
         ELSE [next |-> i + 1, out |-> Append(st.out, s[i])]

\* a variant of unquote_to_bytes that decodes as urllib's unquote_plus does:
\* a '+' becomes a space before the %XX are decoded
unquote_plus_to_bytes(s) ==
    LET step(st, i) == unquote_step([k \in 1..Len(s) |-> IF s[k] = 43 THEN 32 ELSE s[k]],
                                    st, i)
    IN  FoldRange(step, [next |-> 1, out |-> <<>>], 1, Len(s)).out

unquote_to_bytes(s) ==
    LET step(st, i) == unquote_step(s, st, i)
    IN  FoldRange(step, [next |-> 1, out |-> <<>>], 1, Len(s)).out

\* lines 244-250.  CPython 2: urllib.unquote(s) is a byte string and
\* .decode('utf8') decodes it strictly; UnicodeDecodeError is no AttributeError,
\* so it leaves decrypt_message.  CPython 3: urllib.parse.unquote(s) decodes with
\* errors='replace' and is a str, .decode raises AttributeError, and line 249
\* unquotes again.
decoded_or_raised(py, d) ==
    IF py = 2 /\ ~d.ok
    THEN [raised |-> "UnicodeDecodeError", value |-> <<>>]
    ELSE [raised |-> "", value |-> d.out]

unquote_decode(py, s) == decoded_or_raised(py, utf8_decode(unquote_to_bytes(s), py))

\* urllib's quote(s, safe=''), what a form post does to a field on its way in:
\* every character but A-Z a-z 0-9 _ . - ~ becomes %XX
quote_char(c) ==
    IF (c >= 65 /\ c <= 90) \/ (c >= 97 /\ c <= 122) \/ (c >= 48 /\ c <= 57)
       \/ c \in {95, 46, 45, 126}
    THEN <<c>>
    ELSE <<37, hex_digit(c \div 16), hex_digit(c % 16)>>

quote(s) == Join([i \in 1..Len(s) |-> quote_char(s[i])])

-----------------------------------------------------------------------------
(* Crypto.PublicKey.RSA, Crypto.Cipher.PKCS1_v1_5 and Crypto.Cipher.ARC4, as     *)
(* lines 209-217 and 243-263 use them.  A key file is a record: its kind and the *)
(* key pair it belongs to.  RSA itself is a trapdoor permutation of the blocks   *)
(* of ModulusLen bytes; the model takes one that works byte by byte (x -> e*x    *)
(* mod 256, undone by the d of the same pair, e*d = 1 mod 256), since the        *)
(* integers of a real modulus are out of TLC's reach.  The padding (RFC 8017,    *)
(* 7.2) and RC4 are modelled in full.                                            *)

KeyPairs == {1, 2}

PublicKeyOf(pair)  == [kind |-> "PUBLIC KEY", pair |-> pair]
PrivateKeyOf(pair) == [kind |-> "RSA PRIVATE KEY", pair |-> pair]
\* a private key file that holds no key: __init__ reads it and never parses it
NotAKey == [kind |-> "garbage", pair |-> 0]

\* RSA.importKey(pem): ok is FALSE when it raises ValueError
importKey(pem) ==
    IF pem.kind = "PUBLIC KEY"
    THEN [ok |-> TRUE, private |-> FALSE, exp |-> IF pem.pair = 1 THEN 3 ELSE 5]
    ELSE IF pem.kind = "RSA PRIVATE KEY"
    THEN [ok |-> TRUE, private |-> TRUE, exp |-> IF pem.pair = 1 THEN 171 ELSE 205]
    ELSE [ok |-> FALSE, private |-> FALSE, exp |-> 0]

\* the RSA primitive (RSAEP and RSADP) on a block
rsa_apply(key, block) == [i \in 1..Len(block) |-> (key.exp * block[i]) % 256]

\* the random non-zero padding bytes of one encryption, from one random draw
pad_bytes(seed, n) == [i \in 1..n |-> ((seed + 7 * i) % 255) + 1]

\* PKCS1_v1_5.new(key).encrypt(message): EM = 00 02 PS 00 M
pkcs1_encrypt(key, message, seed) ==
    IF Len(message) > ModulusLen - 11
    THEN [ok |-> FALSE, out |-> <<>>]
    ELSE [ok |-> TRUE,
          out |-> rsa_apply(key, <<0, 2>>
                                  \o pad_bytes(seed, ModulusLen - Len(message) - 3)
                                  \o <<0>> \o message)]

\* the index of the 00 that ends the padding of em, or 0: em starts with 00 02,
\* and its first 00 after them is at index 11 or later (8 padding bytes at least)
pkcs1_separator(em) ==
    LET zeros == {i \in 3..Len(em) : em[i] = 0}
        first == CHOOSE i \in zeros : \A j \in zeros : i <= j
    IN  IF Len(em) >= 2 /\ em[1] = 0 /\ em[2] = 2 /\ zeros # {} /\ first >= 11
        THEN first ELSE 0

\* PKCS1_v1_5.new(key).decrypt(ciphertext, sentinel), sentinel = [] (line 258):
\* raises ValueError on a ciphertext of the wrong length, returns the sentinel on
\* a padding that does not check, and the message otherwise
pkcs1_message(em, sep) ==
    IF sep = 0
    THEN [ok |-> TRUE, sentinel |-> TRUE, out |-> <<>>]
    ELSE [ok |-> TRUE, sentinel |-> FALSE, out |-> SubSeq(em, sep + 1, Len(em))]

pkcs1_decode(em) == pkcs1_message(em, pkcs1_separator(em))

pkcs1_decrypt(key, ciphertext) ==
    IF Len(ciphertext) # ModulusLen
    THEN [ok |-> FALSE, sentinel |-> FALSE, out |-> <<>>]
    ELSE pkcs1_decode(rsa_apply(key, ciphertext))

\* S with S[i] and S[j] exchanged (S is indexed 0..255, kept as a tuple)
Swap(S, i, j) == [S EXCEPT ![i + 1] = S[j + 1], ![j + 1] = S[i + 1]]

RECURSIVE Identity(_, _)
Identity(lo, hi) ==
    IF lo = hi THEN <<lo>>
    ELSE Identity(lo, (lo + hi) \div 2) \o Identity(((lo + hi) \div 2) + 1, hi)

\* RC4's key scheduling, one step
ksa_step(key, st, i) ==
    LET j == (st.j + st.S[i + 1] + key[(i % Len(key)) + 1]) % 256
    IN  [S |-> Swap(st.S, i, j), j |-> j]

\* RC4's generator, one step: the k-th byte of msg is XORed with the keystream
prga_step(msg, st, k) ==
    LET i == (st.i + 1) % 256
        j == (st.j + st.S[i + 1]) % 256
        S == Swap(st.S, i, j)
        K == S[((S[i + 1] + S[j + 1]) % 256) + 1]
    IN  [S |-> S, i |-> i, j |-> j, out |-> Append(st.out, Xor(msg[k], K))]

\* ARC4.new(key).encrypt(msg), which is also ARC4.new(key).decrypt(msg);
\* ok is FALSE when ARC4.new raises ValueError on the length of the key
ARC4(key, msg) ==
    LET ksa(st, i)  == ksa_step(key, st, i)
        prga(st, k) == prga_step(msg, st, k)
        S0 == FoldRange(ksa, [S |-> Identity(0, 255), j |-> 0], 0, 255).S
    IN  IF Len(key) < 1 \/ Len(key) > 256
        THEN [ok |-> FALSE, out |-> <<>>]
        ELSE [ok |-> TRUE,
              out |-> FoldRange(prga, [S |-> S0, i |-> 0, j |-> 0, out |-> <<>>],
                                1, Len(msg)).out]

-----------------------------------------------------------------------------
(* Text literals: S("abc") is the str 'abc' as its sequence of code points *)

\* the printable ASCII characters, 32 to 126 ('`', which no literal here uses,
\* is written as a second '?')
Ascii == " !\"#$%&'()*+,-./0123456789:;<=>?@ABCDEFGHIJKLMNOPQRSTUVWXYZ[\\]^_?abcdefghijklmnopqrstuvwxyz{|}~"

\* the code point of each character of Ascii
OrdOf ==
    [ch \in {SubSeq(Ascii, i, i) : i \in 1..Len(Ascii)} |->
        31 + CHOOSE i \in 1..Len(Ascii) :
                 /\ SubSeq(Ascii, i, i) = ch
                 /\ \A j \in 1..(i - 1) : SubSeq(Ascii, j, j) # ch]

S(text) == [i \in 1..Len(text) |-> OrdOf[SubSeq(text, i, i)]]

-----------------------------------------------------------------------------
(* xml.etree.ElementTree, the building side (lines 132-196 and 344-360).  An   *)
(* Element is a record: tag, attrib (the (name, value) pairs in the order they *)
(* were set), text (None or a str) and children.                               *)

Element(tag, attrib) == [tag |-> tag, attrib |-> attrib, text |-> None, children |-> <<>>]

\* an Element whose .text has been assigned
WithText(elem, text) == [elem EXCEPT !.text = Some(text)]

\* SubElement(parent, ...): the new element is the last child of parent
SubElement(parent, child) == [parent EXCEPT !.children = Append(parent.children, child)]

\* ElementTree._escape_cdata
escape_cdata_char(c) ==
    IF c = 38 THEN S("&amp;")
    ELSE IF c = 60 THEN S("&lt;")
    ELSE IF c = 62 THEN S("&gt;")
    ELSE <<c>>

escape_cdata(text) == Join([i \in 1..Len(text) |-> escape_cdata_char(text[i])])

\* ElementTree._escape_attrib
escape_attrib_char(c) ==
    IF c = 38 THEN S("&amp;")
    ELSE IF c = 60 THEN S("&lt;")
    ELSE IF c = 62 THEN S("&gt;")
    ELSE IF c = 34 THEN S("&quot;")
    ELSE IF c = 10 THEN S("&#10;")
    ELSE <<c>>

escape_attrib(text) == Join([i \in 1..Len(text) |-> escape_attrib_char(text[i])])

\* a < b for two str values (code point by code point)
RECURSIVE StrLess(_, _)
StrLess(a, b) ==
    IF b = <<>> THEN FALSE
    ELSE IF a = <<>> THEN TRUE
    ELSE IF Head(a) # Head(b) THEN Head(a) < Head(b)
    ELSE StrLess(Tail(a), Tail(b))

\* sorted(items): the attributes by name
RECURSIVE sorted_items(_)
sorted_items(items) ==
    IF items = <<>> THEN <<>>
    ELSE LET m == CHOOSE i \in 1..Len(items) :
                      \A j \in 1..Len(items) : ~StrLess(items[j][1], items[i][1])
         IN  <<items[m]>>
             \o sorted_items([k \in 1..(Len(items) - 1) |->
                                  IF k < m THEN items[k] ELSE items[k + 1]])

\* the attributes as the serializer writes them: CPython 2.7 sorts them by name,
\* CPython 3 keeps the order in which they were set
attrib_items(py, attrib) == IF py = 2 THEN sorted_items(attrib) ELSE attrib

\* ElementTree._serialize_xml: <tag attributes>text children</tag>, and the
\* short form <tag /> for an element with neither text nor children
RECURSIVE serialize_xml(_, _)
serialize_xml(py, elem) ==
    LET items == attrib_items(py, elem.attrib)
        attrs == Join([i \in 1..Len(items) |->
                          S(" ") \o items[i][1] \o S("=\"")
                          \o escape_attrib(items[i][2]) \o S("\"")])
        text  == IF IsNone(elem.text) THEN <<>> ELSE Val(elem.text)
        kids  == Join([i \in 1..Len(elem.children) |->
                          serialize_xml(py, elem.children[i])])
    IN  IF text # <<>> \/ elem.children # <<>>
        THEN S("<") \o elem.tag \o attrs \o S(">") \o escape_cdata(text) \o kids
             \o S("</") \o elem.tag \o S(">")
        ELSE S("<") \o elem.tag \o attrs \o S(" />")

\* ElementTree(root).write(file, encoding='utf-8', xml_declaration=True) and
\* file.getvalue(): lines 191-196 and 353-358
tree_write(py, root) ==
    utf8_encode(S("<?xml version='1.0' encoding='utf-8'?>") \o <<10>>
                \o serialize_xml(py, root))

-----------------------------------------------------------------------------
(* Client.create_request_xml, lines 94-196 *)

\* what a call raised: nothing, or an exception (its type and its message)
NoException == [type |-> "", msg |-> ""]
Raise(type, msg) == [type |-> type, msg |-> msg]

\* billing.get(name, ''), lines 142-146 and 436-440
billing_get(billing, name) == IF name \in DOMAIN billing THEN billing[name] ELSE <<>>

\* lines 141-160: contact_info and billing under invoice, when billing is truthy
with_contact_info(invoice, billing) ==
    IF DOMAIN billing = {} THEN invoice
    ELSE LET field(tag, name) == WithText(Element(S(tag), <<>>), billing_get(billing, name))
             billing_el ==
                 [Element(S("billing"), <<<<S("type"), S("person")>>>>)
                     EXCEPT !.children = <<field("first_name", "first_name"),
                                           field("last_name", "last_name"),
                                           field("address", "address"),
                                           field("email", "email"),
                                           field("mobile_phone", "phone")>>]
         IN  SubElement(invoice, SubElement(Element(S("contact_info"), <<>>), billing_el))

\* a variant of add_other_param with "or" for "and": only an entry whose name and
\* value are both empty is dropped
add_other_param_either(params_el, param_name, param_value) ==
    IF param_name # <<>> \/ param_value # <<>>
    THEN SubElement(params_el,
             [Element(S("param"), <<>>)
                 EXCEPT !.children = <<WithText(Element(S("name"), <<>>), param_name),
                                       WithText(Element(S("value"), <<>>), param_value)>>])
    ELSE params_el

\* lines 166-179: one <param> under params_el, unless the name or the value is empty
add_other_param(params_el, param_name, param_value) ==
    IF param_name # <<>> /\ param_value # <<>>
    THEN SubElement(params_el,
             [Element(S("param"), <<>>)
                 EXCEPT !.children = <<WithText(Element(S("name"), <<>>), param_name),
                                       WithText(Element(S("value"), <<>>), param_value)>>])
    ELSE params_el

\* lines 163-182: <params> under order when params is truthy; params holds the
\* (name, value) pairs in the order params.items() yields them
with_params(order, params) ==
    IF params = <<>> THEN order
    ELSE LET add(el, i) == add_other_param(el, params[i][1], params[i][2])
         IN  SubElement(order, FoldRange(add, Element(S("params"), <<>>), 1, Len(params)))

\* lines 132-189: the order element
order_element(self, kwargs) ==
    LET order == Element(S("order"), <<<<S("type"), kwargs.order_type>>,
                                       <<S("id"), kwargs.order_id>>,
                                       <<S("timestamp"), kwargs.timestamp>>>>)
        signature == WithText(Element(S("signature"), <<>>), self.signature)
        invoice == SubElement(
                       Element(S("invoice"), <<<<S("currency"), kwargs.currency>>,
                                               <<S("amount"), str_int(kwargs.amount)>>,
                                               <<S("customer_type"), S("2")>>,
                                               <<S("customer_id"), kwargs.customer_id>>>>),
                       WithText(Element(S("details"), <<>>), kwargs.details))
        url == [Element(S("url"), <<>>)
                   EXCEPT !.children = <<WithText(Element(S("confirm"), <<>>), kwargs.confirm_url),
                                         WithText(Element(S("return"), <<>>), kwargs.return_url)>>]
    IN  SubElement(
            with_params(
                SubElement(SubElement(order, signature),
                           with_contact_info(invoice, kwargs.billing)),
                kwargs.params),
            url)

\* lines 191-196: the bytes written for the order element
written(self, py, order) == [self |-> self, order |-> order, xml |-> tree_write(py, order)]

\* create_request_xml(self, **kwargs): the order element and the bytes written
create_request_xml(self, py, kwargs) == written(self, py, order_element(self, kwargs))

-----------------------------------------------------------------------------
(* Client.encrypt_message, lines 198-223.  rnd is what the random source gives *)
(* this call: session_key, the 16 bytes of line 211, and seed, from which the   *)
(* padding bytes of the RSA encryption are drawn.                               *)

encrypt_message(self, xml_message, rnd) ==
    LET key == importKey(self.public_key)
        encrypted_session_key == pkcs1_encrypt(key, rnd.session_key, rnd.seed)
        encrypted_data == ARC4(rnd.session_key, xml_message)
    IN  IF ~key.ok
        THEN [self |-> self, raised |-> Raise("ValueError", "RSA key format is not supported"),
              env_key |-> <<>>, data |-> <<>>, trace |-> <<"RSA.importKey">>]
        ELSE [self |-> self, raised |-> NoException,
              env_key |-> b64encode(encrypted_session_key.out),
              data |-> b64encode(encrypted_data.out),
              trace |-> <<"RSA.importKey", "Random.get_random_bytes",
                          "PKCS1_v1_5.encrypt", "ARC4.encrypt">>]

-----------------------------------------------------------------------------
(* Client.decrypt_message, lines 225-275.  env_key and data are None or a str. *)

CouldNotDecrypt == Raise("Exception", "Could not decrypt message.")

\* a variant of not_str that tests "x is None": an empty str passes
not_str_none_only(x) == IsNone(x)

\* not x, for x None or a str
not_str(x) == IsNone(x) \/ Val(x) = <<>>

\* a variant of decrypt_failed that turns the development flag of the client on,
\* so that the failures that follow are logged
decrypt_failed_flagging(self, steps) ==
    [self |-> [self EXCEPT !.developement = TRUE], raised |-> CouldNotDecrypt,
     value |-> <<>>,
     trace |-> steps \o (IF self.developement THEN <<"exception">> ELSE <<>>)]

\* lines 271-275: any exception in the try is logged in development mode and
\* raised again as the one 'Could not decrypt message.'
decrypt_failed(self, steps) ==
    [self |-> self, raised |-> CouldNotDecrypt, value |-> <<>>,
     trace |-> steps \o (IF self.developement THEN <<"exception">> ELSE <<>>)]

\* lines 263-270
decrypt_data(self, xml_data) ==
    IF ~xml_data.ok
    THEN decrypt_failed(self, <<"RSA.importKey", "unquote", "b64decode",
                                "PKCS1_v1_5.decrypt", "ARC4.new">>)
    ELSE [self |-> self, raised |-> NoException, value |-> xml_data.out,
          trace |-> <<"RSA.importKey", "unquote", "b64decode", "PKCS1_v1_5.decrypt",
                      "ARC4.new", "ARC4.decrypt">>]

\* lines 261-263: the sentinel [] is no key for ARC4.new, which raises
decrypt_with(self, session_key, data_b) ==
    IF ~session_key.ok
    THEN decrypt_failed(self, <<"RSA.importKey", "unquote", "b64decode",
                                "PKCS1_v1_5.decrypt">>)
    ELSE decrypt_data(self, ARC4(session_key.out, data_b.out))

\* lines 253-259
decrypt_decoded(self, key, env_key_b, data_b) ==
    IF ~env_key_b.ok \/ ~data_b.ok
    THEN decrypt_failed(self, <<"RSA.importKey", "unquote", "b64decode">>)
    ELSE decrypt_with(self, pkcs1_decrypt(key, env_key_b.out), data_b)

\* lines 252-275: the try, given the two unquoted fields
decrypt_try(self, key, env_key, data) ==
    decrypt_decoded(self, key, b64decode(env_key), b64decode(data))

\* lines 244-250, then the try: an exception of the unquoting is not caught
decrypt_unquoted(self, key, env_key_u, data_u) ==
    IF env_key_u.raised # ""
    THEN [self |-> self, raised |-> Raise(env_key_u.raised, "'utf8' codec can't decode byte"),
          value |-> <<>>, trace |-> <<"RSA.importKey", "unquote">>]
    ELSE IF data_u.raised # ""
    THEN [self |-> self, raised |-> Raise(data_u.raised, "'utf8' codec can't decode byte"),
          value |-> <<>>, trace |-> <<"RSA.importKey", "unquote">>]
    ELSE decrypt_try(self, key, env_key_u.value, data_u.value)

\* line 243 (outside the try: an exception of RSA.importKey is not caught) on
decrypt_with_key(self, py, key, env_key, data) ==
    IF ~key.ok
    THEN [self |-> self, raised |-> Raise("ValueError", "RSA key format is not supported"),
          value |-> <<>>, trace |-> <<"RSA.importKey">>]
    ELSE decrypt_unquoted(self, key, unquote_decode(py, env_key), unquote_decode(py, data))

decrypt_message(self, py, env_key, data) ==
    IF not_str(env_key) \/ not_str(data)
    THEN [self |-> self, raised |-> Raise("Exception", "Arguments missing."),
          value |-> <<>>, trace |-> <<>>]
    ELSE decrypt_with_key(self, py, importKey(self.private_key), Val(env_key), Val(data))

-----------------------------------------------------------------------------
(* Client.create_webhook_reponse, lines 325-360 (a static method) *)

\* lines 353-360
crc_written(py, crc_element) ==
    [crc_element |-> crc_element, xml |-> tree_write(py, crc_element)]

create_webhook_reponse(py, message, error_type, error_code) ==
    crc_written(py,
        WithText(Element(S("crc"),
                         (IF error_type # <<>>
                          THEN <<<<S("error_type"), error_type>>>> ELSE <<>>)
                         \o (IF error_code # <<>>
                             THEN <<<<S("error_code"), error_code>>>> ELSE <<>>)),
                 message))

-----------------------------------------------------------------------------
(* Client.create_payment_data, lines 363-449.  In kwargs, order_id, customer_id, *)
(* details, confirm_url, return_url and currency are None (not given) or a str,  *)
(* amount is None or an int, billing is a mapping and params the pairs of a      *)
(* mapping (both empty when not given).  now is the clock's reading, rnd the     *)
(* random source's output.                                                       *)

\* a variant of not_int that tests "x is None": the amount 0 passes
not_int_none_only(x) == IsNone(x)

\* not x, for x None or an int
not_int(x) == IsNone(x) \/ Val(x) = 0

\* line 403
missing_args(kwargs) ==
    \/ not_str(kwargs.order_id)
    \/ not_int(kwargs.amount)
    \/ not_str(kwargs.customer_id)
    \/ not_str(kwargs.details)
    \/ not_str(kwargs.confirm_url)
    \/ not_str(kwargs.return_url)

\* a variant of order_id_too_long with >= for >
order_id_too_long_ge(order_id) == Len(order_id) >= OrderIdLimit

\* line 410
order_id_too_long(order_id) == Len(order_id) > OrderIdLimit

\* n as w decimal digits
RECURSIVE zero_padded(_, _)
zero_padded(n, w) == IF w = 0 THEN <<>> ELSE zero_padded(n \div 10, w - 1) \o <<48 + (n % 10)>>

\* datetime.now().strftime('%Y%m%d%H%M%S'), line 386
strftime(now) ==
    zero_padded(now.year, 4) \o zero_padded(now.month, 2) \o zero_padded(now.day, 2)
    \o zero_padded(now.hour, 2) \o zero_padded(now.minute, 2) \o zero_padded(now.second, 2)

\* lines 413-441: the arguments handed to create_request_xml
request_args(kwargs, timestamp) ==
    [order_id |-> Val(kwargs.order_id),
     order_type |-> S("card"),
     timestamp |-> timestamp,
     amount |-> Val(kwargs.amount),
     currency |-> IF IsNone(kwargs.currency) THEN S("RON") ELSE Val(kwargs.currency),
     customer_id |-> Val(kwargs.customer_id),
     details |-> Val(kwargs.details),
     params |-> kwargs.params,
     confirm_url |-> Val(kwargs.confirm_url),
     return_url |-> Val(kwargs.return_url),
     billing |-> IF DOMAIN kwargs.billing = {} THEN <<>>
                 ELSE [first_name |-> billing_get(kwargs.billing, "first_name"),
                       last_name |-> billing_get(kwargs.billing, "last_name"),
                       address |-> billing_get(kwargs.billing, "address"),
                       phone |-> billing_get(kwargs.billing, "phone"),
                       email |-> billing_get(kwargs.billing, "email")]]

\* line 404 and line 446: debug(...) in development mode
debug(self) == IF self.developement THEN <<"debug">> ELSE <<>>

\* line 449: what encrypt_message returned is returned
payment_sent(self, built, sent) ==
    [self |-> sent.self, raised |-> sent.raised, xml |-> built.xml,
     order |-> Some(built.order), env_key |-> sent.env_key, data |-> sent.data,
     trace |-> <<"create_request_xml">> \o debug(self) \o <<"encrypt_message">>
               \o sent.trace]

\* lines 444-449, given what create_request_xml returned
payment_built(self, built, rnd) ==
    payment_sent(self, built, encrypt_message(built.self, built.xml, rnd))

\* lines 407 and 411
payment_refused(self, msg, steps) ==
    [self |-> self, raised |-> Raise("Exception", msg), xml |-> <<>>,
     order |-> None, env_key |-> <<>>, data |-> <<>>, trace |-> steps]

create_payment_data(self, py, kwargs, now, rnd) ==
    IF missing_args(kwargs)
    THEN payment_refused(self, "Can't create mobilpay request with missing args.",
                         debug(self))
    ELSE IF order_id_too_long(Val(kwargs.order_id))
    THEN payment_refused(self, "order_id should not have more than 64 characters.", <<>>)
    ELSE payment_built(self,
                       create_request_xml(self, py, request_args(kwargs, strftime(now))),
                       rnd)

-----------------------------------------------------------------------------
(* Client.parse_webhook_request, lines 277-323 (a static method).  Its input is *)
(* the document as fromstring (line 291) reads it: an element is a record, tag  *)
(* (a string), attrib (a function from attribute names to strings), text (None  *)
(* or a string) and children.  A value of the returned dict is a record: t is   *)
(* "none", "str" (s is the string) or "dict" (items is the set of its (key,     *)
(* value) pairs).  The name of an echoed param always has a text here.          *)

PNone == [t |-> "none", s |-> "", items |-> {}]
PStr(text) == [t |-> "str", s |-> text, items |-> {}]
PDict(items) == [t |-> "dict", s |-> "", items |-> items]

\* element.text as a value
text_value(elem) == IF IsNone(elem.text) THEN PNone ELSE PStr(Val(elem.text))

\* attrib.get(name) and attrib.get(name, '')
attrib_get(elem, name) ==
    IF name \in DOMAIN elem.attrib THEN PStr(elem.attrib[name]) ELSE PNone

attrib_get_str(elem, name) ==
    IF name \in DOMAIN elem.attrib THEN PStr(elem.attrib[name]) ELSE PStr("")

\* element.findall(tag): the children with that tag, in document order
findall(elem, tag) == SelectSeq(elem.children, LAMBDA c : c.tag = tag)

\* d[key] = value on a dict
dict_set(d, key, value) ==
    [k \in (DOMAIN d) \cup {key} |-> IF k = key THEN value ELSE d[k]]

\* items[key] = value on the (key, value) pairs of a dict
items_set(items, key, value) == {p \in items : p[1] # key} \cup {<<key, value>>}

\* lines 304-306, given the name and value children of one param: IndexError
\* when there is no name or no value child
param_set(st, name, value) ==
    IF st.raised THEN st
    ELSE IF name = <<>> \/ value = <<>> THEN [st EXCEPT !.raised = TRUE]
    ELSE [st EXCEPT !.items = items_set(st.items, Val(name[1].text), text_value(value[1]))]

\* lines 303-306, one param
param_step(param, st) == param_set(st, findall(param, "name"), findall(param, "value"))

\* lines 317-321: the error field
error_set(data, child) ==
    IF child.tag = "error"
    THEN dict_set(data, "error",
                  PDict({<<"code", attrib_get(child, "code")>>,
                         <<"message", text_value(child)>>}))
    ELSE data

\* lines 312-321, one child of the mobilpay block
child_step(data, child) ==
    error_set(IF child.tag # "customer"
              THEN dict_set(data, child.tag, text_value(child))
              ELSE data,
              child)

IndexError == Raise("IndexError", "list index out of range")

\* lines 309-323, given the mobilpay blocks of the root
parse_mobilpay(data, mobilpay) ==
    LET cstep(d, i) == child_step(d, mobilpay[1].children[i])
    IN  IF mobilpay = <<>> THEN [raised |-> IndexError, data |-> None]
        ELSE [raised |-> NoException,
              data |-> Some(FoldRange(cstep,
                                      dict_set(data, "crc", attrib_get(mobilpay[1], "crc")),
                                      1, Len(mobilpay[1].children)))]

\* lines 302-309, given the echoed params
parse_echoed(root, data, echoed) ==
    IF echoed.raised THEN [raised |-> IndexError, data |-> None]
    ELSE parse_mobilpay(dict_set(data, "params", PDict(echoed.items)),
                        findall(root, "mobilpay"))

\* a variant of parse_params that takes a missing params block for an empty one
parse_params_lenient(root, data, params) ==
    LET pstep(st, i) == param_step(findall(params[1], "param")[i], st)
    IN  IF params = <<>>
        THEN parse_mobilpay(dict_set(data, "params", PDict({})), findall(root, "mobilpay"))
        ELSE parse_echoed(root, data,
                          FoldRange(pstep, [raised |-> FALSE, items |-> {}],
                                    1, Len(findall(params[1], "param"))))

\* lines 300-306, given the params blocks of the root
parse_params(root, data, params) ==
    LET pstep(st, i) == param_step(findall(params[1], "param")[i], st)
    IN  IF params = <<>> THEN [raised |-> IndexError, data |-> None]
        ELSE parse_echoed(root, data,
                          FoldRange(pstep, [raised |-> FALSE, items |-> {}],
                                    1, Len(findall(params[1], "param"))))

\* a variant of parse_invoice that goes on without the customer_id when the root
\* has no invoice child
parse_invoice_lenient(root, data, invoice) ==
    parse_params(root,
                 IF invoice = <<>> THEN data
                 ELSE dict_set(data, "customer_id", attrib_get(invoice[1], "customer_id")),
                 findall(root, "params"))

\* lines 296-300, given the invoice children of the root
parse_invoice(root, data, invoice) ==
    IF invoice = <<>> THEN [raised |-> IndexError, data |-> None]
    ELSE parse_params(root,
                      dict_set(data, "customer_id", attrib_get(invoice[1], "customer_id")),
                      findall(root, "params"))

\* lines 289-296
parse_root(root) ==
    parse_invoice(root,
                  [order_id |-> attrib_get_str(root, "id"),
                   timestamp |-> attrib_get_str(root, "timestamp"),
                   type |-> attrib_get_str(root, "type")],
                  findall(root, "invoice"))

parse_webhook_request(xml) ==
    IF ~xml.well_formed
    THEN [raised |-> Raise("ParseError", "syntax error"), data |-> None]
    ELSE parse_root(xml.root)

-----------------------------------------------------------------------------
(* The clients that __init__ (lines 48-92) can leave behind.  The public key is *)
(* parsed from the certificate at construction (lines 78-80); the private key   *)
(* file is read and kept as it is (lines 83-84): it may be the key of the       *)
(* certificate, another key, or no key at all.                                  *)

Clients ==
    [signature : {S("SIG-1&2")},
     public_key : {PublicKeyOf(1)},
     private_key : {PrivateKeyOf(1), PrivateKeyOf(2), NotAKey},
     developement : BOOLEAN]

\* the clients whose private key is the key of their certificate
PairedClients == {c \in Clients : c.private_key = PrivateKeyOf(c.public_key.pair)}

Pythons == {2, 3}

-----------------------------------------------------------------------------
(* The inputs the calls are made with *)

\* what Random.get_random_bytes(16) and the padding's random source give a call
RandomDraw(a) ==
    [session_key |-> [i \in 1..SessionKeyLen |-> (a * i * i + 3 * a) % 256], seed |-> a]

Rnds == {RandomDraw(0), RandomDraw(101)}
OneRnd == {RandomDraw(101)}

\* readings of the clock
Nows == {[year |-> 2024, month |-> 1, day |-> 2, hour |-> 3, minute |-> 4, second |-> 5],
         [year |-> 2026, month |-> 11, day |-> 30, hour |-> 23, minute |-> 59, second |-> 59]}
OneNow == {[year |-> 2024, month |-> 1, day |-> 2, hour |-> 3, minute |-> 4, second |-> 5]}

Billings ==
    {<<>>,
     [first_name |-> S("Ana")],
     [first_name |-> S("Ana"), last_name |-> S("Pop"), address |-> S("Str. <1> & 2"),
      phone |-> S("0700"), email |-> S("a@b.ro")]}

ParamLists ==
    {<<>>,
     <<<<S("foo"), S("bar")>>>>,
     <<<<S("foo"), S("bar")>>, <<S("baz"), S("1")>>>>,
     <<<<S(""), S("x")>>>>,
     <<<<S("k"), S("")>>>>,
     <<<<S(""), S("x")>>, <<S("foo"), S("a<b")>>, <<S("k"), S("")>>>>}

\* a request with every required argument
BaseRequest ==
    [order_id |-> Some(S("A1")), amount |-> Some(100), customer_id |-> Some(S("c9")),
     details |-> Some(S("2 x <tea> & cake")), confirm_url |-> Some(S("https://s.ro/c?a=1&b=2")),
     return_url |-> Some(S("https://s.ro/r")), currency |-> None,
     billing |-> <<>>, params |-> <<>>]

\* each required argument missing, empty or given, in every combination
FieldRequests ==
    {[BaseRequest EXCEPT !.order_id = o, !.amount = a, !.customer_id = c,
                         !.details = d, !.confirm_url = cu, !.return_url = ru] :
        o \in {None, Some(<<>>), Some(S("A1"))},
        a \in {None, Some(0), Some(-1), Some(-250), Some(1), Some(100)},
        c \in {None, Some(<<>>), Some(S("c9"))},
        d \in {None, Some(<<>>), Some(S("2 x <tea> & cake"))},
        cu \in {None, Some(<<>>), Some(S("https://s.ro/c?a=1&b=2"))},
        ru \in {None, Some(<<>>), Some(S("https://s.ro/r"))}}

\* an order_id of every length up to MaxOrderIdLen
LengthRequests ==
    {[BaseRequest EXCEPT !.order_id = Some(Repeat(65 + (n % 26), n))] : n \in 0..MaxOrderIdLen}

\* the optional arguments
OptionRequests ==
    {[BaseRequest EXCEPT !.billing = b, !.params = p, !.currency = cur] :
        b \in Billings, p \in ParamLists, cur \in {None, Some(S("EUR"))}}

Requests == FieldRequests \cup LengthRequests \cup OptionRequests

FewRequests ==
    {BaseRequest,
     [BaseRequest EXCEPT !.confirm_url = None],
     [BaseRequest EXCEPT !.amount = Some(-1)],
     [BaseRequest EXCEPT !.order_id = Some(Repeat(66, OrderIdLimit + 1))],
     [BaseRequest EXCEPT !.billing = [first_name |-> S("Ana")],
                         !.params = <<<<S("foo"), S("bar")>>, <<S("k"), S("")>>>>]}

\* arguments of a direct call of create_request_xml
XmlArgs ==
    {[order_id |-> S("A<1>"), order_type |-> S("card"), timestamp |-> S("20240102030405"),
      amount |-> a, currency |-> S("RON"), customer_id |-> S("c\"9"),
      details |-> S("tea & cake"), billing |-> b, params |-> p,
      confirm_url |-> S("https://s.ro/c"), return_url |-> S("https://s.ro/r")] :
        a \in {-5, 0, 100}, b \in Billings, p \in ParamLists}

FewXmlArgs == {a \in XmlArgs : a.amount = 100 /\ Len(a.params) \in {0, 3}}

\* byte strings handed to encrypt_message directly
Messages ==
    {<<>>, <<0, 255, 37, 43, 61, 10>>, S("<order />")}

-----------------------------------------------------------------------------
(* What may happen to an envelope between encrypt_message and decrypt_message *)

\* s with its i-th character replaced by another character of the base64 alphabet
other_char(s, i) == [s EXCEPT ![i] = IF s[i] = 65 THEN 66 ELSE 65]

Tampers ==
    {"intact", "quoted", "payload_flip", "key_head", "key_tail", "key_short",
     "key_unpadded", "key_pct_ff", "data_pct_ff", "key_pct_utf8", "data_pct_stray"}

tampered(kind, w) ==
    IF kind = "intact" THEN [env_key |-> w.env_key, data |-> w.data]
    ELSE IF kind = "quoted" THEN [env_key |-> quote(w.env_key), data |-> quote(w.data)]
    ELSE IF kind = "payload_flip" /\ Len(w.data) > 0
         THEN [env_key |-> w.env_key, data |-> other_char(w.data, 1)]
    ELSE IF kind = "key_head" THEN [env_key |-> other_char(w.env_key, 1), data |-> w.data]
    ELSE IF kind = "key_tail"
         THEN [env_key |-> other_char(w.env_key, Len(w.env_key) - 3), data |-> w.data]
    ELSE IF kind = "key_short"
         THEN [env_key |-> SubSeq(w.env_key, 1, Len(w.env_key) - 4), data |-> w.data]
    ELSE IF kind = "key_unpadded"
         THEN [env_key |-> SubSeq(w.env_key, 1, Len(w.env_key) - 1), data |-> w.data]
    ELSE IF kind = "key_pct_ff" THEN [env_key |-> w.env_key \o S("%FF"), data |-> w.data]
    ELSE IF kind = "data_pct_ff" THEN [env_key |-> w.env_key, data |-> w.data \o S("%ff")]
    ELSE IF kind = "key_pct_utf8"
         THEN [env_key |-> S("%C3%A9") \o w.env_key, data |-> w.data]
    ELSE [env_key |-> w.env_key, data |-> S("%zz") \o w.data]

\* arguments of decrypt_message that come from no envelope
Literals ==
    {[env_key |-> k, data |-> d] :
        k \in {None, Some(<<>>), Some(S("QUJD")), Some(S("%FF"))},
        d \in {None, Some(<<>>), Some(S("QUJD"))}}

-----------------------------------------------------------------------------
(* The notifications parse_webhook_request is called with *)

NElem(tag, attrib, text, children) ==
    [tag |-> tag, attrib |-> attrib, text |-> text, children |-> children]

Leaf(tag, text) == NElem(tag, <<>>, Some(text), <<>>)

NParam(name, value) == NElem("param", <<>>, None, <<Leaf("name", name), Leaf("value", value)>>)

\* the echoed <params> blocks: no block, or a block with these children
ParamBlocks ==
    {None,
     Some(<<>>),
     Some(<<NParam("foo", "bar"), NParam("baz", "1")>>),
     Some(<<NParam("foo", "bar"), NParam("foo", "2")>>),
     Some(<<NParam("foo", "bar"), NElem("param", <<>>, None, <<Leaf("value", "1")>>)>>),
     Some(<<NElem("param", <<>>, None, <<Leaf("name", "baz")>>)>>),
     Some(<<NElem("param", <<>>, None,
                  <<Leaf("name", "baz"), NElem("value", <<>>, None, <<>>)>>)>>)}

\* the children a mobilpay block is built from
Kids ==
    {Leaf("action", "confirmed"),
     NElem("customer", [type |-> "person"], None, <<Leaf("first_name", "Ana")>>),
     NElem("error", [code |-> "30"], Some("Card declined"), <<>>),
     NElem("error", <<>>, None, <<>>),
     NElem("purchase", <<>>, None, <<>>),
     Leaf("crc", "forged"),
     Leaf("order_id", "B2"),
     Leaf("params", "none")}

KidLists == UNION {[1..n -> Kids] : n \in 0..MaxChildren}

\* the mobilpay blocks: no block, or a block with or without its crc attribute
MobilpayBlocks ==
    {None}
    \cup {Some(NElem("mobilpay", a, None, kids)) :
              a \in {[crc |-> "X123"], <<>>}, kids \in KidLists}

RootAttribs == {[id |-> "A1", timestamp |-> "20240102030405", type |-> "card"], [id |-> "A1"]}

Invoices == {None, Some(NElem("invoice", [customer_id |-> "c9", currency |-> "RON"], None, <<>>)),
             Some(NElem("invoice", <<>>, None, <<>>))}

Notification(attrib, invoice, params, mobilpay) ==
    [well_formed |-> TRUE,
     root |-> NElem("order", attrib, None,
                    invoice
                    \o (IF IsNone(params) THEN <<>>
                        ELSE <<NElem("params", <<>>, None, Val(params))>>)
                    \o mobilpay)]

\* a document that is not XML: fromstring raises ParseError
NotXml == [well_formed |-> FALSE, root |-> NElem("", <<>>, None, <<>>)]

\* the blocks that every root, invoice and params block is combined with
FewMobilpayBlocks ==
    {None,
     Some(NElem("mobilpay", [crc |-> "X123"], None, <<Leaf("action", "confirmed")>>)),
     Some(NElem("mobilpay", [crc |-> "X123"], None,
                <<Leaf("action", "paid"),
                  NElem("error", [code |-> "30"], Some("Card declined"), <<>>)>>))}

\* every root, invoice and params block with a few mobilpay blocks, and every
\* mobilpay block with every invoice, with and without a params block
Notifications ==
    {NotXml}
    \cup {Notification(a, i, p, m) :
              a \in RootAttribs, i \in Invoices, p \in ParamBlocks, m \in FewMobilpayBlocks}
    \cup {Notification([id |-> "A1", timestamp |-> "20240102030405", type |-> "card"],
                       i, p, m) :
              i \in Invoices,
              p \in {None, Some(<<NParam("foo", "bar"), NParam("baz", "1")>>)},
              m \in MobilpayBlocks}

FewNotifications ==
    {x \in Notifications : Len(x.root.children) # 2 /\ x.root.attrib \in {[id |-> "A1"]}
                           /\ \A i \in 1..Len(x.root.children) :
                                  Len(x.root.children[i].children) <= 1}

\* the arguments of create_webhook_reponse
Acks ==
    [message : {S(""), S("X123"), S("a<b")}, error_type : {S(""), S("1")},
     error_code : {S(""), S("FATAL \"1\"")}]

-----------------------------------------------------------------------------
(* The state machine: a call is made when none is in progress, and returns *)

NoCall == [op |-> "", args |-> <<>>]

EmptyRet ==
    [raised |-> NoException, xml |-> <<>>, order |-> None, env_key |-> <<>>,
     data |-> <<>>, plaintext |-> <<>>, record |-> None]

\* a call's results as the state keeps them: the client after the call, the
\* collaborators invoked, and what was returned or raised
xml_outcome(r) ==
    [self |-> r.self, trace |-> <<>>,
     ret |-> [EmptyRet EXCEPT !.xml = r.xml, !.order = Some(r.order)]]

payment_outcome(r) ==
    [self |-> r.self, trace |-> r.trace,
     ret |-> [EmptyRet EXCEPT !.raised = r.raised, !.xml = r.xml, !.order = r.order,
                              !.env_key = r.env_key, !.data = r.data]]

encrypt_outcome(r) ==
    [self |-> r.self, trace |-> r.trace,
     ret |-> [EmptyRet EXCEPT !.raised = r.raised, !.env_key = r.env_key, !.data = r.data]]

decrypt_outcome(r) ==
    [self |-> r.self, trace |-> r.trace,
     ret |-> [EmptyRet EXCEPT !.raised = r.raised, !.plaintext = r.value]]

parse_outcome(self, r) ==
    [self |-> self, trace |-> <<>>,
     ret |-> [EmptyRet EXCEPT !.raised = r.raised, !.record = r.data]]

ack_outcome(self, r) ==
    [self |-> self, trace |-> <<>>,
     ret |-> [EmptyRet EXCEPT !.xml = r.xml, !.order = Some(r.crc_element)]]

\* the outcome of the call c made on the client self
Outcome(self, py, c) ==
    IF c.op = "create_request_xml"
    THEN xml_outcome(create_request_xml(self, py, c.args))
    ELSE IF c.op = "create_payment_data"
    THEN payment_outcome(create_payment_data(self, py, c.args.kwargs, c.args.now, c.args.rnd))
    ELSE IF c.op = "encrypt_message"
    THEN encrypt_outcome(encrypt_message(self, c.args.xml_message, c.args.rnd))
    ELSE IF c.op = "decrypt_message"
    THEN decrypt_outcome(decrypt_message(self, py, c.args.env_key, c.args.data))
    ELSE IF c.op = "parse_webhook_request"
    THEN parse_outcome(self, parse_webhook_request(c.args))
    ELSE ack_outcome(self, create_webhook_reponse(py, c.args.message, c.args.error_type,
                                                  c.args.error_code))

\* the call c has run to its end with the outcome out
Returned(c, out) ==
    /\ client' = out.self
    /\ ret' = out.ret
    /\ trace' = out.trace
    /\ call' = c
    /\ pc' = "returned"
    /\ UNCHANGED <<client0, python, wire>>

\* the call c is made and runs to its end
Call(c) ==
    /\ pc = "ready"
    /\ Returned(c, Outcome(client, python, c))

CreateRequestXml(argset) ==
    /\ IsNone(wire)
    /\ \E a \in argset : Call([op |-> "create_request_xml", args |-> a])

CreatePaymentData(requests, nows, rnds) ==
    /\ IsNone(wire)
    /\ \E k \in requests, now \in nows, rnd \in rnds :
           Call([op |-> "create_payment_data",
                 args |-> [kwargs |-> k, now |-> now, rnd |-> rnd]])

\* encrypt_message on given bytes and on the bytes of an order document
EncryptMessage(messages, argset, rnds) ==
    /\ IsNone(wire)
    /\ \E m \in messages \cup {create_request_xml(client, python, a).xml : a \in argset},
          rnd \in rnds :
           Call([op |-> "encrypt_message", args |-> [xml_message |-> m, rnd |-> rnd]])

\* decrypt_message on arguments that come from no envelope
DecryptMessage(literals) ==
    /\ IsNone(wire)
    /\ \E l \in literals :
           Call([op |-> "decrypt_message",
                 args |-> [env_key |-> l.env_key, data |-> l.data, via |-> "literal"]])

\* decrypt_message on the envelope in flight, as it arrives
arrival(kind, t) ==
    [op |-> "decrypt_message",
     args |-> [env_key |-> Some(t.env_key), data |-> Some(t.data), via |-> kind]]

Deliver(tampers) ==
    /\ ~IsNone(wire)
    /\ \E kind \in tampers : Call(arrival(kind, tampered(kind, Val(wire))))

ParseWebhookRequest(documents) ==
    /\ IsNone(wire)
    /\ \E x \in documents : Call([op |-> "parse_webhook_request", args |-> x])

CreateWebhookResponse(acks) ==
    /\ IsNone(wire)
    /\ \E a \in acks : Call([op |-> "create_webhook_reponse", args |-> a])

\* the caller posts the envelope a call returned: it is in flight, together with
\* the bytes it wraps
Post ==
    /\ pc = "returned"
    /\ call.op \in {"encrypt_message", "create_payment_data"}
    /\ ret.raised = NoException
    /\ wire' = Some([env_key |-> ret.env_key, data |-> ret.data,
                     xml |-> IF call.op = "encrypt_message"
                             THEN call.args.xml_message ELSE ret.xml])
    /\ pc' = "ready"
    /\ call' = NoCall
    /\ ret' = EmptyRet
    /\ trace' = <<>>
    /\ UNCHANGED <<client, client0, python>>

\* the caller takes the result; an envelope still in flight is dropped
Return ==
    /\ pc = "returned"
    /\ pc' = "ready"
    /\ call' = NoCall
    /\ ret' = EmptyRet
    /\ trace' = <<>>
    /\ wire' = None
    /\ UNCHANGED <<client, client0, python>>

InitWith(clients) ==
    /\ client \in clients
    /\ client0 = client
    /\ python \in Pythons
    /\ pc = "ready"
    /\ call = NoCall
    /\ ret = EmptyRet
    /\ trace = <<>>
    /\ wire = None

\* every method, on a few inputs each
Init == InitWith(Clients)

Next ==
    \/ CreateRequestXml(FewXmlArgs)
    \/ CreatePaymentData(FewRequests, Nows, OneRnd)
    \/ EncryptMessage(Messages, {}, OneRnd)
    \/ DecryptMessage(Literals)
    \/ Deliver({"intact", "quoted", "key_head", "key_pct_ff"})
    \/ ParseWebhookRequest(FewNotifications)
    \/ CreateWebhookResponse(Acks)
    \/ Post
    \/ Return

Spec == Init /\ [][Next]_vars

\* the order document and its validation, on every request
InitRequest == InitWith({c \in PairedClients : ~c.developement})

NextRequest ==
    \/ CreateRequestXml(XmlArgs)
    \/ CreatePaymentData(Requests, OneNow, OneRnd)
    \/ Return

SpecRequest == InitRequest /\ [][NextRequest]_vars

\* the envelope, from encrypt_message to decrypt_message
InitEnvelope == InitWith({c \in Clients : ~c.developement})

NextEnvelope ==
    \/ CreatePaymentData(FewRequests, OneNow, Rnds)
    \/ EncryptMessage(Messages, FewXmlArgs, Rnds)
    \/ DecryptMessage(Literals)
    \/ Deliver(Tampers)
    \/ Post
    \/ Return

SpecEnvelope == InitEnvelope /\ [][NextEnvelope]_vars

\* the notification and its acknowledgement
InitWebhook == InitWith({c \in PairedClients : ~c.developement})

NextWebhook ==
    \/ ParseWebhookRequest(Notifications)
    \/ CreateWebhookResponse(Acks)
    \/ Return

SpecWebhook == InitWebhook /\ [][NextWebhook]_vars

-----------------------------------------------------------------------------
(* Properties.  Each is stated on the call that has just returned: call is the *)
(* method and its arguments, ret what it returned or raised, trace what it     *)
(* invoked on the way.                                                         *)

MissingArgsError == Raise("Exception", "Can't create mobilpay request with missing args.")
OrderIdTooLongError == Raise("Exception", "order_id should not have more than 64 characters.")

\* the steps that build the order document or the envelope
XmlAndCipherSteps ==
    {"create_request_xml", "encrypt_message", "RSA.importKey", "Random.get_random_bytes",
     "PKCS1_v1_5.encrypt", "ARC4.encrypt"}

\* the call returned nothing: no order document and no envelope
NothingProduced ==
    /\ IsNone(ret.order)
    /\ ret.xml = <<>>
    /\ ret.env_key = <<>>
    /\ ret.data = <<>>
    /\ \A i \in 1..Len(trace) : trace[i] \notin XmlAndCipherSteps

\* a create_payment_data call has returned
PaymentReturned == pc = "returned" /\ call.op = "create_payment_data"

\* a required str argument that is missing or empty
Empty(o) == IsNone(o) \/ Val(o) = <<>>

\* the five required str arguments but order_id are given, and the amount is
\* given and is not zero
OthersGiven(k) ==
    /\ ~IsNone(k.amount) /\ Val(k.amount) # 0
    /\ ~Empty(k.customer_id) /\ ~Empty(k.details)
    /\ ~Empty(k.confirm_url) /\ ~Empty(k.return_url)

\* C1: decrypt_message, called by a client that holds the private key of its
\* certificate on the env_key and data that encrypt_message returned for an order
\* document or any other byte string that is not empty (as they are, or
\* percent-encoded by a form post), returns exactly the bytes that were
\* encrypted; and percent-decoding leaves the base64 text of an envelope unchanged
C1_RoundTrip ==
    /\ (/\ pc = "returned"
        /\ call.op = "decrypt_message"
        /\ call.args.via \in {"intact", "quoted"}
        /\ Val(wire).xml # <<>>
        /\ client \in PairedClients)
       => (ret.raised = NoException /\ ret.plaintext = Val(wire).xml)
    /\ (pc = "ready" /\ ~IsNone(wire))
       => /\ unquote_decode(python, Val(wire).env_key)
             = [raised |-> "", value |-> Val(wire).env_key]
          /\ unquote_decode(python, Val(wire).data)
             = [raised |-> "", value |-> Val(wire).data]

\* an order document built from a request went through encrypt_message and came
\* back from decrypt_message, its base64 text holding a '+' or a '/'
C1_Witness ==
    /\ pc = "returned"
    /\ call.op = "decrypt_message"
    /\ call.args.via = "intact"
    /\ client \in PairedClients
    /\ ret.raised = NoException
    /\ Len(ret.plaintext) > 100
    /\ ret.plaintext = Val(wire).xml
    /\ \E i \in 1..Len(Val(wire).data) : Val(wire).data[i] \in {43, 47}

\* C2: when order_id, amount, customer_id, details, confirm_url or return_url is
\* missing or empty, create_payment_data raises the validation error and has
\* invoked neither create_request_xml nor encrypt_message nor any cipher step
C2_MissingFieldFailsFirst ==
    (/\ PaymentReturned
     /\ \/ Empty(call.args.kwargs.order_id)
        \/ IsNone(call.args.kwargs.amount)
        \/ Empty(call.args.kwargs.customer_id)
        \/ Empty(call.args.kwargs.details)
        \/ Empty(call.args.kwargs.confirm_url)
        \/ Empty(call.args.kwargs.return_url))
    => (ret.raised = MissingArgsError /\ NothingProduced)

\* only confirm_url is empty, and the call has failed
C2_Witness ==
    /\ PaymentReturned
    /\ call.args.kwargs.confirm_url = Some(<<>>)
    /\ ~Empty(call.args.kwargs.order_id)
    /\ OthersGiven([call.args.kwargs EXCEPT !.confirm_url = Some(S("x"))])
    /\ ret.raised = MissingArgsError
    /\ trace = <<>>

\* C3: with the other required arguments given, create_payment_data returns an
\* envelope for every order_id of 1 to 64 characters, and raises the validation
\* error, before any XML or cipher step, for every order_id of 65 or more
C3_OrderIdLength ==
    (PaymentReturned /\ OthersGiven(call.args.kwargs) /\ ~IsNone(call.args.kwargs.order_id))
    => /\ Len(Val(call.args.kwargs.order_id)) \in 1..OrderIdLimit
          => (ret.raised = NoException /\ ret.env_key # <<>> /\ ret.data # <<>>)
       /\ Len(Val(call.args.kwargs.order_id)) > OrderIdLimit
          => (ret.raised = OrderIdTooLongError /\ NothingProduced)

\* an order_id of exactly 64 characters was accepted
C3_Witness ==
    /\ PaymentReturned
    /\ OthersGiven(call.args.kwargs)
    /\ ~IsNone(call.args.kwargs.order_id)
    /\ Len(Val(call.args.kwargs.order_id)) = OrderIdLimit
    /\ ret.raised = NoException
    /\ ret.env_key # <<>>

\* C4, as the specification states it: create_payment_data accepts a request only
\* when amount is greater than 0, and a zero or negative amount is rejected
\* with the validation error, without order document or envelope
C4_AsStated ==
    PaymentReturned
    => /\ ret.raised = NoException
          => (~IsNone(call.args.kwargs.amount) /\ Val(call.args.kwargs.amount) > 0)
       /\ (~IsNone(call.args.kwargs.amount) /\ Val(call.args.kwargs.amount) <= 0)
          => (ret.raised = MissingArgsError /\ NothingProduced)

\* C4, as the code has it: a missing amount and the amount 0 are rejected with
\* the validation error, without order document or envelope; a negative amount
\* is accepted as a positive one is, and the order document carries it
C4_Amended ==
    PaymentReturned
    => /\ (IsNone(call.args.kwargs.amount) \/ Val(call.args.kwargs.amount) = 0)
          => (ret.raised = MissingArgsError /\ NothingProduced)
       /\ (/\ OthersGiven(call.args.kwargs)
           /\ ~IsNone(call.args.kwargs.order_id)
           /\ Len(Val(call.args.kwargs.order_id)) \in 1..OrderIdLimit)
          => /\ ret.raised = NoException
             /\ ret.env_key # <<>>
             /\ Val(ret.order).children[2].attrib[2]
                = <<S("amount"), str_int(Val(call.args.kwargs.amount))>>

\* a request with a negative amount was accepted
C4_Witness ==
    /\ PaymentReturned
    /\ ~IsNone(call.args.kwargs.amount)
    /\ Val(call.args.kwargs.amount) < 0
    /\ ret.raised = NoException
    /\ ret.env_key # <<>>
    /\ Val(ret.order).children[2].attrib[2] = <<S("amount"), S("-1")>>

\* C5, as the specification states it: with env_key and data not empty (and a
\* private key file that holds a key), whatever decrypt_message raises is the one
\* error 'Could not decrypt message.'
C5_AsStated ==
    (/\ pc = "returned"
     /\ call.op = "decrypt_message"
     /\ importKey(client.private_key).ok
     /\ ~Empty(call.args.env_key)
     /\ ~Empty(call.args.data)
     /\ ret.raised # NoException)
    => ret.raised = CouldNotDecrypt

\* decrypt_message, given an env_key that is not empty and a private key file
\* that holds a key, has raised UnicodeDecodeError
C5_Witness ==
    /\ pc = "returned"
    /\ call.op = "decrypt_message"
    /\ importKey(client.private_key).ok
    /\ call.args.env_key = Some(S("%FF"))
    /\ call.args.data = Some(S("QUJD"))
    /\ python = 2
    /\ ret.raised.type = "UnicodeDecodeError"

\* C6: parse_webhook_request raises, and returns no record, when the root of the
\* notification has no invoice child or no mobilpay child
C6_InvoiceAndMobilpayRequired ==
    (/\ pc = "returned"
     /\ call.op = "parse_webhook_request"
     /\ call.args.well_formed
     /\ \/ \A i \in 1..Len(call.args.root.children) :
               call.args.root.children[i].tag # "invoice"
        \/ \A i \in 1..Len(call.args.root.children) :
               call.args.root.children[i].tag # "mobilpay")
    => (ret.raised = IndexError /\ IsNone(ret.record))

\* a notification with a params block and a mobilpay block but no invoice
\* has been refused
C6_Witness ==
    /\ pc = "returned"
    /\ call.op = "parse_webhook_request"
    /\ call.args.well_formed
    /\ Len(call.args.root.children) = 2
    /\ call.args.root.children[1].tag = "params"
    /\ call.args.root.children[2].tag = "mobilpay"
    /\ ret.raised = IndexError
    /\ IsNone(ret.record)

\* C7, as the specification states it: the record of a parsed notification has
\* order_id, timestamp and type of the root's attributes, crc of the mobilpay
\* block's attribute, params the mapping of the echoed entries, one field per
\* child of the mobilpay block not tagged customer (its text), and the field
\* error, {code, message} of the error child, exactly when there is such a child
C7_AsStated ==
    (pc = "returned" /\ call.op = "parse_webhook_request" /\ ret.raised = NoException)
    => LET root     == call.args.root
           rec      == Val(ret.record)
           mobilpay == findall(root, "mobilpay")[1]
           kids     == findall(root, "mobilpay")[1].children
           entries  == findall(findall(root, "params")[1], "param")
           name(e)  == Val(findall(e, "name")[1].text)
           last(tag) == CHOOSE i \in 1..Len(kids) :
                            /\ kids[i].tag = tag
                            /\ \A j \in (i + 1)..Len(kids) : kids[j].tag # tag
       IN  /\ rec.order_id = attrib_get_str(root, "id")
           /\ rec.timestamp = attrib_get_str(root, "timestamp")
           /\ rec.type = attrib_get_str(root, "type")
           /\ rec.crc = attrib_get(mobilpay, "crc")
           /\ rec.params
              = PDict({<<name(entries[i]), text_value(findall(entries[i], "value")[1])>> :
                          i \in {i \in 1..Len(entries) :
                                    \A j \in (i + 1)..Len(entries) :
                                        name(entries[j]) # name(entries[i])}})
           /\ \A i \in 1..Len(kids) :
                  kids[i].tag \notin {"customer", "error"}
                  => /\ kids[i].tag \in DOMAIN rec
                     /\ rec[kids[i].tag] = text_value(kids[last(kids[i].tag)])
           /\ ("error" \in DOMAIN rec) <=> (\E i \in 1..Len(kids) : kids[i].tag = "error")
           /\ "error" \in DOMAIN rec
              => rec.error = PDict({<<"code", attrib_get(kids[last("error")], "code")>>,
                                    <<"message", text_value(kids[last("error")])>>})

\* a notification whose mobilpay block has the crc attribute X123 and a child
\* <crc>forged</crc> has been parsed, and the record's crc is "forged"
C7_Witness ==
    /\ pc = "returned"
    /\ call.op = "parse_webhook_request"
    /\ ret.raised = NoException
    /\ findall(call.args.root, "mobilpay")[1].attrib = [crc |-> "X123"]
    /\ findall(call.args.root, "mobilpay")[1].children = <<Leaf("crc", "forged")>>
    /\ Val(ret.record).crc = PStr("forged")

\* C8: the children of the order element are signature, invoice, params and url
\* in this order; params is there exactly when the params mapping is not empty
\* and holds one param (name, value) per entry whose name and value are both
\* not empty; contact_info is in invoice exactly when billing is given
C8_OrderDocument ==
    (/\ pc = "returned"
     /\ call.op \in {"create_request_xml", "create_payment_data"}
     /\ ret.raised = NoException)
    => LET kwargs == IF call.op = "create_request_xml" THEN call.args ELSE call.args.kwargs
           order  == Val(ret.order)
           tags(el) == [i \in 1..Len(el.children) |-> el.children[i].tag]
           kept   == SelectSeq(kwargs.params, LAMBDA e : e[1] # <<>> /\ e[2] # <<>>)
           param(e) == [tag |-> S("param"), attrib |-> <<>>, text |-> None,
                        children |-> <<[tag |-> S("name"), attrib |-> <<>>,
                                        text |-> Some(e[1]), children |-> <<>>],
                                       [tag |-> S("value"), attrib |-> <<>>,
                                        text |-> Some(e[2]), children |-> <<>>]>>]
       IN  /\ tags(order)
              = <<S("signature"), S("invoice")>>
                \o (IF kwargs.params # <<>> THEN <<S("params")>> ELSE <<>>)
                \o <<S("url")>>
           /\ kwargs.params # <<>>
              => order.children[3].children = [i \in 1..Len(kept) |-> param(kept[i])]
           /\ tags(order.children[2])
              = <<S("details")>>
                \o (IF DOMAIN kwargs.billing # {} THEN <<S("contact_info")>> ELSE <<>>)
           /\ tags(order.children[Len(order.children)]) = <<S("confirm"), S("return")>>

\* an order document with billing, built from three params of which two were
\* dropped
C8_Witness ==
    /\ pc = "returned"
    /\ call.op = "create_payment_data"
    /\ ret.raised = NoException
    /\ Len(call.args.kwargs.params) = 3
    /\ DOMAIN call.args.kwargs.billing # {}
    /\ Len(Val(ret.order).children) = 4
    /\ Len(Val(ret.order).children[3].children) = 1
    /\ Len(Val(ret.order).children[2].children) = 2

\* C9: no call, whether it returns or raises, changes the client's signature,
\* public key, private key or development flag, and what a call returns or
\* raises is what the same call returns or raises on the client as it was
\* constructed, whatever was called before
C9_ClientIsReadOnly ==
    [][pc' = "returned"
       => /\ client' = client
          /\ client' = client0
          /\ ret' = Outcome(client0, python, call').ret]_vars

\* decrypt_message has failed on an envelope that an earlier call produced, and
\* the client is as it was constructed
C9_Witness ==
    /\ pc = "returned"
    /\ call.op = "decrypt_message"
    /\ ~IsNone(wire)
    /\ ret.raised = CouldNotDecrypt
    /\ client.developement
    /\ client = client0

\* C10: parse_webhook_request raises IndexError for every notification whose
\* root has no params child, even with an invoice and a mobilpay block; it
\* returns a record only if invoice, params and mobilpay are all there and every
\* param has a name and a value child
C10_ParamsRequired ==
    (pc = "returned" /\ call.op = "parse_webhook_request" /\ call.args.well_formed)
    => LET kids == call.args.root.children
           has(el, tag) == \E i \in 1..Len(el.children) : el.children[i].tag = tag
           first(tag) == CHOOSE i \in 1..Len(kids) :
                             kids[i].tag = tag /\ \A j \in 1..(i - 1) : kids[j].tag # tag
       IN  /\ ~has(call.args.root, "params")
              => (ret.raised = IndexError /\ IsNone(ret.record))
           /\ ret.raised = NoException
              => /\ has(call.args.root, "invoice")
                 /\ has(call.args.root, "params")
                 /\ has(call.args.root, "mobilpay")
                 /\ \A i \in 1..Len(kids[first("params")].children) :
                        kids[first("params")].children[i].tag = "param"
                        => /\ has(kids[first("params")].children[i], "name")
                           /\ has(kids[first("params")].children[i], "value")

\* a notification with an invoice and a mobilpay block but no params block has
\* been refused
C10_Witness ==
    /\ pc = "returned"
    /\ call.op = "parse_webhook_request"
    /\ call.args.well_formed
    /\ Len(call.args.root.children) = 2
    /\ call.args.root.children[1].tag = "invoice"
    /\ call.args.root.children[2].tag = "mobilpay"
    /\ Len(call.args.root.children[2].children) > 0
    /\ ret.raised = IndexError

=============================================================================
